---- MODULE Spec2Model ----
(***************************************************************************)
(* Model of the `version` command line tool (src/src/main.rs).             *)
(*                                                                         *)
(* The state is the state file `.vers` on disk plus the position and the   *)
(* locals of the invocation of the program that is currently running.     *)
(* Text is modelled as a sequence of one-character strings, so that        *)
(* formatting and parsing are computed character by character as the code  *)
(* does.  Numbers are naturals; the numerals that occur in the model have  *)
(* at most a few digits, far below the u32 range of the Version fields.    *)
(* The file system carries out the reads and writes it is asked to do on   *)
(* an existing file; the file may be absent.                               *)
(***************************************************************************)
EXTENDS Integers, Sequences, FiniteSets, TLC

\* ------------------------------------------------------------------ bounds
MaxMajor == 1
MaxField == 10
MaxJunk == 1
MaxRuns == 2

\* ------------------------------------------------------------ text helpers
NL == "\n"

DigitChars == <<"0", "1", "2", "3", "4", "5", "6", "7", "8", "9">>

IsDigit(c) == \E i \in 1..10 : DigitChars[i] = c

DigitVal(c) == (CHOOSE i \in 1..10 : DigitChars[i] = c) - 1

\* str::starts_with
StartsWith(s, p) == Len(s) >= Len(p) /\ SubSeq(s, 1, Len(p)) = p

\* str::split(char): the pieces between the separators, empty ones included
RECURSIVE Split(_, _)
Split(s, ch) ==
    IF \A i \in 1..Len(s) : s[i] # ch
    THEN <<s>>
    ELSE LET i == CHOOSE k \in 1..Len(s) :
                      s[k] = ch /\ \A j \in 1..(k - 1) : s[j] # ch
         IN  <<SubSeq(s, 1, i - 1)>> \o Split(SubSeq(s, i + 1, Len(s)), ch)

\* Iterator::find(|s| s.starts_with(p)): the first match and what the
\* iterator still holds after it; an unsuccessful find exhausts the iterator
RECURSIVE Find(_, _)
Find(items, p) ==
    IF items = <<>>
    THEN [found |-> FALSE, item |-> <<>>, rest |-> <<>>]
    ELSE IF StartsWith(Head(items), p)
         THEN [found |-> TRUE, item |-> Head(items), rest |-> Tail(items)]
         ELSE Find(Tail(items), p)

\* str::replace(pat, ""): every non-overlapping occurrence removed
RECURSIVE Remove(_, _)
Remove(s, pat) ==
    IF s = <<>>
    THEN <<>>
    ELSE IF StartsWith(s, pat)
         THEN Remove(SubSeq(s, Len(pat) + 1, Len(s)), pat)
         ELSE <<Head(s)>> \o Remove(Tail(s), pat)

\* FmtU32 emitting the digits least significant first
RECURSIVE FmtU32Reversed(_)
FmtU32Reversed(n) ==
    IF n < 10
    THEN <<DigitChars[n + 1]>>
    ELSE <<DigitChars[(n % 10) + 1]>> \o FmtU32Reversed(n \div 10)

\* u32 Display: decimal digits, no leading zeros
RECURSIVE FmtU32(_)
FmtU32(n) ==
    IF n < 10
    THEN <<DigitChars[n + 1]>>
    ELSE FmtU32(n \div 10) \o <<DigitChars[(n % 10) + 1]>>

RECURSIVE DecVal(_)
DecVal(ds) ==
    IF ds = <<>> THEN 0
    ELSE 10 * DecVal(SubSeq(ds, 1, Len(ds) - 1)) + DigitVal(ds[Len(ds)])

\* str::parse::<u32>(): an optional '+', then one or more decimal digits
ParseU32(s) ==
    LET body == IF s # <<>> /\ Head(s) = "+" THEN Tail(s) ELSE s
    IN  IF body = <<>> \/ \E i \in 1..Len(body) : ~IsDigit(body[i])
        THEN [ok |-> FALSE, val |-> 0]
        ELSE [ok |-> TRUE, val |-> DecVal(body)]

\* ------------------------------------------------------------ literals
KwVersion == <<"v", "e", "r", "s", "i", "o", "n">>
KwSuffix == <<"s", "u", "f", "f", "i", "x">>
VersionPrefix == KwVersion \o <<" ", "=", " ">>
SuffixPrefix == KwSuffix \o <<" ", "=", " ">>

Dev == <<"d", "e", "v">>
Test == <<"t", "e", "s", "t">>
Rel == <<"r", "e", "l">>
Alpha == <<"a", "l", "p", "h", "a">>
Beta == <<"b", "e", "t", "a">>
SuffixLabels == {Dev, Test, Rel, Alpha, Beta}

DefaultVersion == <<"1", ".", "0", ".", "0">>

\* ConfigParse searching the suffix line with a fresh iterator
ConfigParseFreshIter(contents) ==
    LET iter == Split(contents, NL)
        version == Find(iter, KwVersion)
        suffix == Find(iter, KwSuffix)
    IN  IF suffix.found /\ version.found
        THEN [suffix |-> Remove(suffix.item, SuffixPrefix),
              version |-> Remove(version.item, VersionPrefix)]
        ELSE [suffix |-> Dev, version |-> DefaultVersion]

\* ------------------------------------------------------------ Config
ConfigParse(contents) ==
    LET iter == Split(contents, NL)
        version == Find(iter, KwVersion)
        suffix == Find(version.rest, KwSuffix)
    IN  IF suffix.found /\ version.found
        THEN [suffix |-> Remove(suffix.item, SuffixPrefix),
              version |-> Remove(version.item, VersionPrefix)]
        ELSE [suffix |-> Dev, version |-> DefaultVersion]

ConfigDisplay(conf) == SuffixPrefix \o conf.suffix \o <<NL>>

\* incr that rolls the patch over without carrying into minor
incrNoCarry(ver) ==
    LET patch1 == ver.patch + 1
        patch2 == IF patch1 > 9 THEN 0 ELSE patch1
        minor1 == ver.minor
        minor2 == IF minor1 > 9 THEN 0 ELSE minor1
        major1 == IF minor1 > 9 THEN ver.major + 1 ELSE ver.major
    IN  [major |-> major1, minor |-> minor2, patch |-> patch2]

\* incr that carries one step early (patch > 8)
incrEarlyCarry(ver) ==
    LET patch1 == ver.patch + 1
        patch2 == IF patch1 > 8 THEN 0 ELSE patch1
        minor1 == IF patch1 > 8 THEN ver.minor + 1 ELSE ver.minor
        minor2 == IF minor1 > 9 THEN 0 ELSE minor1
        major1 == IF minor1 > 9 THEN ver.major + 1 ELSE ver.major
    IN  [major |-> major1, minor |-> minor2, patch |-> patch2]

\* incr that tests the fields for equality with 10 instead of > 9
incrCarryAtTen(ver) ==
    LET patch1 == ver.patch + 1
        patch2 == IF patch1 = 10 THEN 0 ELSE patch1
        minor1 == IF patch1 = 10 THEN ver.minor + 1 ELSE ver.minor
        minor2 == IF minor1 = 10 THEN 0 ELSE minor1
        major1 == IF minor1 = 10 THEN ver.major + 1 ELSE ver.major
    IN  [major |-> major1, minor |-> minor2, patch |-> patch2]

\* ------------------------------------------------------------ Version
\* Version::incr
incr(ver) ==
    LET patch1 == ver.patch + 1
        patch2 == IF patch1 > 9 THEN 0 ELSE patch1
        minor1 == IF patch1 > 9 THEN ver.minor + 1 ELSE ver.minor
        minor2 == IF minor1 > 9 THEN 0 ELSE minor1
        major1 == IF minor1 > 9 THEN ver.major + 1 ELSE ver.major
    IN  [major |-> major1, minor |-> minor2, patch |-> patch2]

VersionDisplay(ver) ==
    VersionPrefix \o FmtU32(ver.major) \o <<".">> \o FmtU32(ver.minor)
        \o <<".">> \o FmtU32(ver.patch)

NoVersion == [major |-> 0, minor |-> 0, patch |-> 0]

\* Version::from(&str): ok = FALSE stands for the panic of an unwrap
VersionFrom(s) ==
    LET iter == Split(s, ".")
    IN  IF Len(iter) < 3
        THEN [ok |-> FALSE, ver |-> NoVersion]
        ELSE LET major == ParseU32(iter[1])
                 minor == ParseU32(iter[2])
                 patch == ParseU32(iter[3])
             IN  IF major.ok /\ minor.ok /\ patch.ok
                 THEN [ok |-> TRUE,
                       ver |-> [major |-> major.val, minor |-> minor.val,
                                patch |-> patch.val]]
                 ELSE [ok |-> FALSE, ver |-> NoVersion]

\* Rw::write: the text that replaces the contents of the file
RwWrite(conf, ver) == VersionDisplay(ver) \o <<NL>> \o ConfigDisplay(conf)

\* ------------------------------------------------------------ git
GitCommit == <<"c", "o", "m", "m", "i", "t">>
GitPush == <<"p", "u", "s", "h">>
FlagM == <<"-", "m">>
FlagA == <<"-", "a">>
FlagTag == <<"-", "-", "t", "a", "g">>
Origin == <<"o", "r", "i", "g", "i", "n">>
Main == <<"m", "a", "i", "n">>

\* fn commit: the argument list handed to git
CommitArgs(msg, others) ==
    <<GitCommit, FlagM, msg>> \o (IF Len(others) = 0 THEN <<FlagA>> ELSE others)

\* fn push: the argument list handed to git
PushArgs(others) ==
    <<GitPush>> \o (IF Len(others) = 0 THEN <<Origin, Main>> ELSE others)

TagsArgs == <<GitPush, FlagTag>>

\* main: the --other option (None reads as "") split at spaces
OtherArgs(other) == Split(IF other.some THEN other.val ELSE <<>>, " ")

\* ------------------------------------------------------------ inputs
NoOther == [some |-> FALSE, val |-> <<>>]
Some(s) == [some |-> TRUE, val |-> s]

Others == {NoOther, Some(<<"-", "v">>), Some(Origin \o <<" ">> \o Dev)}
Messages == {<<"m", "s", "g">>}
ExitCodes == {0, 1}

Cmds ==
    {[name |-> "update", message |-> <<>>, other |-> NoOther],
     [name |-> "tags", message |-> <<>>, other |-> NoOther]}
    \cup {[name |-> "commit", message |-> m, other |-> o] :
             m \in Messages, o \in Others}
    \cup {[name |-> "push", message |-> <<>>, other |-> o] : o \in Others}

NoCmd == [name |-> "none", message |-> <<>>, other |-> NoOther]

\* the states the spec calls well-formed, and the text written for them
WellFormedStates ==
    [major : 0..MaxMajor, minor : 0..MaxField, patch : 0..MaxField,
     suffix : SuffixLabels]

VersionOf(st) == [major |-> st.major, minor |-> st.minor, patch |-> st.patch]

Serialize(st) ==
    RwWrite([suffix |-> st.suffix, version |-> <<>>], VersionOf(st))

SerializedText == [st \in WellFormedStates |-> Serialize(st)]

\* files with the two lines of the spec's example among unrelated lines
Line234 == VersionPrefix \o <<"2", ".", "3", ".", "4">>
LineRel == SuffixPrefix \o Rel
JunkLine == <<"#", " ", "n">>

RECURSIVE Junk(_)
Junk(n) == IF n = 0 THEN <<>> ELSE JunkLine \o <<NL>> \o Junk(n - 1)

VersionFirst(a, b, c) ==
    Junk(a) \o Line234 \o <<NL>> \o Junk(b) \o LineRel \o <<NL>> \o Junk(c)

SuffixFirst(a, b, c) ==
    Junk(a) \o LineRel \o <<NL>> \o Junk(b) \o Line234 \o <<NL>> \o Junk(c)

ExampleFiles ==
    {VersionFirst(a, b, c) : a \in 0..MaxJunk, b \in 0..MaxJunk, c \in 0..MaxJunk}
    \cup {SuffixFirst(a, b, c) : a \in 0..MaxJunk, b \in 0..MaxJunk, c \in 0..MaxJunk}

\* version strings that are not three plain numerals
OddVersions ==
    {<<"1", ".", "2">>,
     <<"1", ".", "2", ".", "3", ".", "4">>,
     <<"1", ".", "2", ".", "3", ".", "x">>,
     <<"1", ".", "x", ".", "3">>,
     <<"1", ".", ".", "3">>,
     <<"+", "1", ".", "2", ".", "3">>,
     <<"-", "1", ".", "2", ".", "3">>,
     <<"0", "1", ".", "0", "2", ".", "0", "9">>,
     <<"1", ".", "2", ".", "3", " ">>,
     <<>>}

OddFiles ==
    {VersionPrefix \o v \o <<NL>> \o SuffixPrefix \o Dev \o <<NL>> :
        v \in OddVersions}
    \cup {<<>>,
          <<NL>>,
          JunkLine \o <<NL>>,
          Line234 \o <<NL>>,
          LineRel \o <<NL>>,
          Line234 \o <<NL>> \o LineRel,
          KwVersion \o <<"=", "1", ".", "2", ".", "3", NL>> \o KwSuffix
              \o <<"=">> \o Dev \o <<NL>>}

NoFile == [exists |-> FALSE, text |-> <<>>]
FileOf(t) == [exists |-> TRUE, text |-> t]

InitialFiles ==
    {NoFile}
    \cup {FileOf(SerializedText[st]) : st \in WellFormedStates}
    \cup {FileOf(t) : t \in ExampleFiles \cup OddFiles}

\* ------------------------------------------------------------ state
VARIABLES
    file,       \* the state file .vers: whether it exists, and its text
    pc,         \* idle, loaded, done or panicked
    cmd,        \* the subcommand of the running invocation
    contents,   \* Config::parse: the text read from the file
    conf,       \* main: conf
    v,          \* main, Cmd::Update: v after incr
    gitArgs,    \* the argument list of the child process
    status,     \* the exit status of the child process
    panic,      \* the call whose unwrap panicked
    reads,      \* how often this invocation opened the file for reading
    writes,     \* how often this invocation created the file
    spawns,     \* how many child processes this invocation spawned
    runs        \* invocations finished so far

vars == <<file, pc, cmd, contents, conf, v, gitArgs, status, panic,
          reads, writes, spawns, runs>>

NoConf == [suffix |-> <<>>, version |-> <<>>]

Init ==
    /\ file \in InitialFiles
    /\ pc = "idle"
    /\ cmd = NoCmd
    /\ contents = <<>>
    /\ conf = NoConf
    /\ v = NoVersion
    /\ gitArgs = <<>>
    /\ status = 0
    /\ panic = "none"
    /\ reads = 0
    /\ writes = 0
    /\ spawns = 0
    /\ runs = 0

\* main, up to the match: Config::parse reads the file, App::parse the
\* command line
Launch(c) ==
    /\ pc = "idle"
    /\ cmd' = c
    /\ reads' = reads + 1
    /\ IF file.exists
       THEN /\ contents' = file.text
            /\ conf' = ConfigParse(file.text)
            /\ pc' = "loaded"
            /\ panic' = panic
       ELSE /\ pc' = "panicked"
            /\ panic' = "File::open"
            /\ UNCHANGED <<contents, conf>>
    /\ UNCHANGED <<file, v, gitArgs, status, writes, spawns, runs>>

\* Update that creates (truncates) the file before it parses the version
UpdateTruncateFirst ==
    /\ pc = "loaded"
    /\ cmd.name = "update"
    /\ LET parsed == VersionFrom(conf.version)
       IN  IF parsed.ok
           THEN /\ v' = incr(parsed.ver)
                /\ file' = FileOf(RwWrite(conf, incr(parsed.ver)))
                /\ pc' = "done"
                /\ panic' = panic
           ELSE /\ pc' = "panicked"
                /\ panic' = "Version::from"
                /\ file' = FileOf(<<>>)
                /\ v' = v
    /\ writes' = writes + 1
    /\ UNCHANGED <<cmd, contents, conf, gitArgs, status, reads, spawns, runs>>

\* Cmd::Update
Update ==
    /\ pc = "loaded"
    /\ cmd.name = "update"
    /\ LET parsed == VersionFrom(conf.version)
       IN  IF parsed.ok
           THEN /\ v' = incr(parsed.ver)
                /\ file' = FileOf(RwWrite(conf, incr(parsed.ver)))
                /\ writes' = writes + 1
                /\ pc' = "done"
                /\ panic' = panic
           ELSE /\ pc' = "panicked"
                /\ panic' = "Version::from"
                /\ UNCHANGED <<file, v, writes>>
    /\ UNCHANGED <<cmd, contents, conf, gitArgs, status, reads, spawns, runs>>

\* Command::output().unwrap() and the relay of the child's result
Run(args) ==
    /\ gitArgs' = args
    /\ \E started \in BOOLEAN, code \in ExitCodes :
          IF started
          THEN /\ spawns' = spawns + 1
               /\ status' = code
               /\ pc' = "done"
               /\ panic' = panic
          ELSE /\ pc' = "panicked"
               /\ panic' = "Command::output"
               /\ UNCHANGED <<spawns, status>>
    /\ UNCHANGED <<file, cmd, contents, conf, v, reads, writes, runs>>

\* Cmd::Commit
Commit ==
    /\ pc = "loaded"
    /\ cmd.name = "commit"
    /\ Run(CommitArgs(cmd.message, OtherArgs(cmd.other)))

\* Cmd::Push
Push ==
    /\ pc = "loaded"
    /\ cmd.name = "push"
    /\ Run(PushArgs(OtherArgs(cmd.other)))

\* Tags that also rewrites the state file before pushing
TagsRewrite ==
    /\ pc = "loaded"
    /\ cmd.name = "tags"
    /\ gitArgs' = TagsArgs
    /\ file' = FileOf(RwWrite(conf, NoVersion))
    /\ writes' = writes + 1
    /\ spawns' = spawns + 1
    /\ \E code \in ExitCodes : status' = code
    /\ pc' = "done"
    /\ UNCHANGED <<cmd, contents, conf, v, panic, reads, runs>>

\* Cmd::Tags
Tags ==
    /\ pc = "loaded"
    /\ cmd.name = "tags"
    /\ Run(TagsArgs)

\* the process ends; the next invocation starts from the file alone
Exit ==
    /\ pc \in {"done", "panicked"}
    /\ runs < MaxRuns
    /\ runs' = runs + 1
    /\ pc' = "idle"
    /\ cmd' = NoCmd
    /\ contents' = <<>>
    /\ conf' = NoConf
    /\ v' = NoVersion
    /\ gitArgs' = <<>>
    /\ status' = 0
    /\ panic' = "none"
    /\ reads' = 0
    /\ writes' = 0
    /\ spawns' = 0
    /\ UNCHANGED file

Next ==
    \/ \E c \in Cmds : Launch(c)
    \/ Update
    \/ Commit
    \/ Push
    \/ Tags
    \/ Exit

Spec == Init /\ [][Next]_vars

TypeOK ==
    /\ pc \in {"idle", "loaded", "done", "panicked"}
    /\ runs \in 0..MaxRuns

\* ------------------------------------------------------------ properties
UpdateDone == pc = "done" /\ cmd.name = "update"

\* the version as Version::from reads it from the loaded configuration
Loaded == VersionFrom(conf.version)

DefaultConf == [suffix |-> Dev, version |-> DefaultVersion]

HasLine(text, kw) == \E i \in 1..Len(Split(text, NL)) : StartsWith(Split(text, NL)[i], kw)

AbsentData(f) ==
    \/ ~f.exists
    \/ f.text = <<>>
    \/ ~HasLine(f.text, KwVersion)
    \/ ~HasLine(f.text, KwSuffix)

\* C1: when the state file is missing, empty or lacks a version or a suffix
\* line, the load yields the default state (1.0.0, dev) and the subcommand
\* proceeds instead of the process aborting.
C1_LoadNeverFails ==
    (pc # "idle" /\ writes = 0 /\ AbsentData(file))
        => (panic # "File::open" /\ conf = DefaultConf)

\* C2 as stated: a file with the lines `version = 2.3.4` and `suffix = rel`
\* in either order among unrelated lines loads as 2.3.4 / rel.
C2_EitherOrder ==
    (pc = "loaded" /\ contents \in ExampleFiles)
        => /\ Loaded.ok
           /\ Loaded.ver = [major |-> 2, minor |-> 3, patch |-> 4]
           /\ conf.suffix = Rel

\* C2 amended: with the version line before the suffix line, among any
\* number of unrelated lines, the load yields 2.3.4 / rel; with the suffix
\* line before the version line it yields the default 1.0.0 / dev.
C2_VersionLineFirst ==
    pc = "loaded" =>
        \A a \in 0..MaxJunk, b \in 0..MaxJunk, c \in 0..MaxJunk :
            /\ contents = VersionFirst(a, b, c)
                  => /\ Loaded.ok
                     /\ Loaded.ver = [major |-> 2, minor |-> 3, patch |-> 4]
                     /\ conf.suffix = Rel
            /\ contents = SuffixFirst(a, b, c)
                  => /\ conf = DefaultConf
                     /\ Loaded.ok
                     /\ Loaded.ver = [major |-> 1, minor |-> 0, patch |-> 0]

C2_Witness ==
    /\ pc = "loaded"
    /\ contents = VersionFirst(MaxJunk, MaxJunk, MaxJunk)
    /\ Loaded.ver = [major |-> 2, minor |-> 3, patch |-> 4]
    /\ conf.suffix = Rel

\* C3: without --other, commit hands git exactly [commit, -m, <message>, -a]
\* and push hands git exactly [push, origin, main]; with --other, its
\* space-separated tokens take the place of the default.
C3_DefaultArgs ==
    /\ (pc = "done" /\ cmd.name = "commit")
          => gitArgs = <<GitCommit, FlagM, cmd.message>>
                 \o (IF cmd.other.some THEN Split(cmd.other.val, " ")
                     ELSE <<FlagA>>)
    /\ (pc = "done" /\ cmd.name = "push")
          => gitArgs = <<GitPush>>
                 \o (IF cmd.other.some THEN Split(cmd.other.val, " ")
                     ELSE <<Origin, Main>>)

\* the carry increment as the claim spells it out
CarryIncrement(st) ==
    IF st.patch < 9
    THEN [st EXCEPT !.patch = st.patch + 1]
    ELSE IF st.minor < 9
         THEN [st EXCEPT !.minor = st.minor + 1, !.patch = 0]
         ELSE [st EXCEPT !.major = st.major + 1, !.minor = 0, !.patch = 0]

Weight(ver) == 100 * ver.major + 10 * ver.minor + ver.patch

\* C4: update on a file `version = M.m.p\nsuffix = s\n` with m, p in 0..9
\* leaves exactly the text of the carry increment of (M, m, p) with the same
\* suffix s, and raises 100*M + 10*m + p by one; 1.2.9 / dev becomes
\* 1.3.0 / dev.
C4_UpdateCarry ==
    UpdateDone =>
        \A st \in WellFormedStates :
            (st.minor <= 9 /\ st.patch <= 9 /\ contents = SerializedText[st])
                => /\ file = FileOf(Serialize(CarryIncrement(st)))
                   /\ Weight(v) = Weight(st) + 1

C4_Witness ==
    /\ UpdateDone
    /\ contents = Serialize([major |-> 1, minor |-> 2, patch |-> 9, suffix |-> Dev])
    /\ file = FileOf(Serialize([major |-> 1, minor |-> 3, patch |-> 0, suffix |-> Dev]))

\* C5 as stated: for every loaded triple (M, m, p) with p in 0..8, whatever
\* M and m are, the increment yields (M, m, p + 1).
C5_PatchOnly ==
    (UpdateDone /\ Loaded.ver.patch <= 8)
        => v = [Loaded.ver EXCEPT !.patch = Loaded.ver.patch + 1]

\* C5 amended: for every triple (M, m, p) with p in 0..8 and m in 0..9 the
\* increment yields (M, m, p + 1), major and minor unchanged.
C5_PatchOnlyMinorDigit ==
    (UpdateDone /\ Loaded.ver.patch <= 8 /\ Loaded.ver.minor <= 9)
        => v = [Loaded.ver EXCEPT !.patch = Loaded.ver.patch + 1]

C5_Witness ==
    /\ UpdateDone
    /\ Loaded.ver = [major |-> 1, minor |-> 9, patch |-> 8]
    /\ v = [major |-> 1, minor |-> 9, patch |-> 9]

\* C6: the text written for a well-formed state loads back as that state,
\* and writing the loaded state gives the same text again.
C6_RoundTrip ==
    (pc = "loaded" /\ cmd.name = "update") =>
        \A st \in WellFormedStates :
            contents = SerializedText[st]
                => /\ Loaded.ok
                   /\ Loaded.ver = VersionOf(st)
                   /\ conf.suffix = st.suffix
                   /\ RwWrite(conf, Loaded.ver) = contents

C6_Witness ==
    /\ pc = "loaded"
    /\ cmd.name = "update"
    /\ contents = Serialize([major |-> 1, minor |-> 10, patch |-> 0, suffix |-> Beta])
    /\ Loaded.ver = [major |-> 1, minor |-> 10, patch |-> 0]
    /\ conf.suffix = Beta

IsInteger(s) ==
    LET body == IF s # <<>> /\ Head(s) \in {"+", "-"} THEN Tail(s) ELSE s
    IN  body # <<>> /\ \A i \in 1..Len(body) : IsDigit(body[i])

ThreeIntegers(s) ==
    /\ Len(Split(s, ".")) = 3
    /\ \A i \in 1..3 : IsInteger(Split(s, ".")[i])

\* C7: a version string that is not exactly three dot-separated integers
\* makes the parse fail fatally, so an update that got past the parse had
\* exactly three integer components.
C7_MalformedAborts == UpdateDone => ThreeIntegers(conf.version)

\* C8: after the increment minor and patch are in 0..9, whatever the loaded
\* triple was, and the version left in the state file by update has minor
\* and patch in 0..9.
C8_FieldsInRange ==
    UpdateDone =>
        /\ v.minor \in 0..9
        /\ v.patch \in 0..9
        /\ VersionFrom(ConfigParse(file.text).version) = [ok |-> TRUE, ver |-> v]

C8_Witness ==
    /\ UpdateDone
    /\ Loaded.ver.minor > 9
    /\ Loaded.ver.patch > 9
    /\ v.minor = 0
    /\ v.patch = 0

\* C9: only update writes the state file: a step of commit, push or tags
\* leaves the file as it is, whatever the arguments and the child's exit
\* status, and an invocation opens the file once and spawns at most one
\* child.
C9_OnlyUpdateWrites ==
    [][/\ (file' # file) => (pc = "loaded" /\ cmd.name = "update")
       /\ (cmd.name \in {"commit", "push", "tags"}) => (writes' = 0)
       /\ (pc' \in {"loaded", "done", "panicked"}) => (reads' = 1)
       /\ spawns' <= 1]_vars

C9_Witness ==
    /\ pc = "done"
    /\ cmd.name = "commit"
    /\ cmd.other.some
    /\ status = 1
    /\ spawns = 1
    /\ reads = 1
    /\ runs = 1
    /\ file.exists

\* C10: an update that aborts in the parse of the version leaves the state
\* file as it was, never created anew, and the next invocation reads the
\* same contents.
C10_AbortKeepsFile ==
    [][/\ (panic' = "Version::from") => (file' = file /\ writes' = 0)
       /\ (pc \in {"done", "panicked"}) => (file' = file)
       /\ (pc = "idle" /\ file.exists) => (file' = file /\ contents' = file.text)]_vars

C10_Witness ==
    /\ pc = "panicked"
    /\ panic = "Version::from"
    /\ cmd.name = "update"
    /\ writes = 0
    /\ file = FileOf(contents)
    /\ contents # <<>>

====
